---- MODULE Spec2Model ----
(***************************************************************************)
(* Project access control of test-case-management-be.                      *)
(*                                                                         *)
(* The state is the relational store (tables projects and project_access,  *)
(* the users table is fixed) and the requests being served.  Every handler *)
(* is a sequence of calls into the store; one call, together with the      *)
(* local code that follows it up to the next call, is one step (Step).     *)
(* The check and the write of a repository's Create, Update and Delete are *)
(* separate steps.                                                         *)
(* Under Spec a handler runs alone from its first statement to its         *)
(* response (Run); under SpecConc the statements of two requests           *)
(* interleave; under SpecCreate those of two create requests; under       *)
(* SpecList the project listing is applied to the stores of up to          *)
(* MaxListed projects, and under SpecGrants the listing of grants to       *)
(* stores of two projects with up to two grants each.                      *)
(* Requests are those that passed URL parsing and JSON binding (ids are    *)
(* integers, level is view or edit, name is not blank on create).  Of a    *)
(* project's columns id, name, owner_id and created_at are modelled.       *)
(* Accounts 1 and 2 are ordinary users, who create projects and are named  *)
(* as grant targets; account 3 is the admin; id 4 is no user.              *)
(***************************************************************************)
EXTENDS Integers, FiniteSets, Sequences, TLC

\* ---------------------------------------------------------------- bounds
MaxProjects == 2
MaxAccess == 2

\* ------------------------------------------------------------ input sets
Users == {1, 2, 3}
RoleOf == (1 :> "user") @@ (2 :> "tester") @@ (3 :> "admin")
RoleAdmin == "admin"
Creators == {1, 2}
UserIDs == {1, 2, 4}
AccessLevelView == "view"
AccessLevelEdit == "edit"
Levels == {AccessLevelView, AccessLevelEdit}
Names == {"alpha", "beta"}
ProjectIDs == 1..MaxProjects
AccessIDs == 1..MaxAccess
Slots == {1, 2}

VARIABLES projects, access, nextProjectID, nextAccessID, inflight

vars == <<projects, access, nextProjectID, nextAccessID, inflight>>

\* The store as one value, so that statements are operators on it.
DB == [projects |-> projects, access |-> access,
       nextProjectID |-> nextProjectID, nextAccessID |-> nextAccessID]

\* --------------------------------------------------------- repositories
UserGetByID(id) ==
  IF id \in Users THEN "nil" ELSE "ErrUserNotFound"

ProjectGetByID(D, id) ==
  IF \E p \in D.projects : p.id = id
  THEN [err |-> "nil", project |-> CHOOSE p \in D.projects : p.id = id]
  ELSE [err |-> "ErrProjectNotFound",
        project |-> [id |-> 0, name |-> "", owner |-> 0, created_at |-> 0]]

ProjectCount(D, name, owner) ==
  Cardinality({p \in D.projects : p.name = name /\ p.owner = owner})

\* INSERT INTO projects; created_at is the clock read at the insert, which
\* has advanced since the insert before.
ProjectInsert(D, name, owner) ==
  [D EXCEPT !.projects = @ \cup {[id |-> D.nextProjectID, name |-> name, owner |-> owner,
                                   created_at |-> D.nextProjectID]},
            !.nextProjectID = @ + 1]

\* The UPDATE also writing owner_id, with the column's zero value.
ProjectUpdateRowOwnerToo(D, id, name) ==
  [D EXCEPT !.projects = {IF p.id = id THEN [p EXCEPT !.name = name, !.owner = 0] ELSE p
                            : p \in @}]

ProjectUpdateRow(D, id, name) ==
  [D EXCEPT !.projects = {IF p.id = id THEN [p EXCEPT !.name = name] ELSE p : p \in @}]

\* The foreign key without ON DELETE CASCADE actions.
ProjectDeleteRowNoCascade(D, id) ==
  [D EXCEPT !.projects = {p \in @ : p.id # id}]

\* DELETE FROM projects; project_access rows go with it (ON DELETE CASCADE).
ProjectDeleteRow(D, id) ==
  [D EXCEPT !.projects = {p \in @ : p.id # id},
            !.access = {a \in @ : a.project_id # id}]

\* The existence check of Create finding nothing.
AccessCountNone(D, projectID, userID) == 0

AccessCount(D, projectID, userID) ==
  Cardinality({a \in D.access : a.project_id = projectID /\ a.user_id = userID})

\* The lookup never reporting sql.ErrNoRows.
AccessGetByIDAlwaysFound(D, id) ==
  [err |-> "nil", access |-> [id |-> id, project_id |-> 0, user_id |-> 0, level |-> "",
                              created_at |-> 0]]

AccessGetByID(D, id) ==
  IF \E a \in D.access : a.id = id
  THEN [err |-> "nil", access |-> CHOOSE a \in D.access : a.id = id]
  ELSE [err |-> "ErrProjectAccessNotFound",
        access |-> [id |-> 0, project_id |-> 0, user_id |-> 0, level |-> "",
                    created_at |-> 0]]

\* The table without its unique index.
UniqueKeyMissing(D, projectID, userID) == FALSE

\* UNIQUE KEY idx_project_user (project_id, user_id)
UniqueKeyViolated(D, projectID, userID) ==
  \E a \in D.access : a.project_id = projectID /\ a.user_id = userID

\* FOREIGN KEY project_id REFERENCES projects(id), user_id REFERENCES users(id)
ForeignKeyViolated(D, projectID, userID) ==
  \/ ~ \E p \in D.projects : p.id = projectID
  \/ userID \notin Users

\* INSERT INTO project_access: the row, or the driver's error.  created_at
\* is the clock read at the insert, which has advanced since the insert
\* before.
AccessInsert(D, projectID, userID, level) ==
  IF UniqueKeyViolated(D, projectID, userID) \/ ForeignKeyViolated(D, projectID, userID)
  THEN [err |-> "sqlError", db |-> D]
  ELSE [err |-> "nil",
        db |-> [D EXCEPT !.access = @ \cup {[id |-> D.nextAccessID, project_id |-> projectID,
                                             user_id |-> userID, level |-> level,
                                             created_at |-> D.nextAccessID]},
                         !.nextAccessID = @ + 1]]

\* The UPDATE matching no row.
AccessUpdateRowNone(D, id, level) == D

AccessUpdateRow(D, id, level) ==
  [D EXCEPT !.access = {IF a.id = id THEN [a EXCEPT !.level = level] ELSE a : a \in @}]

\* The DELETE matching no row.
AccessDeleteRowNone(D, id) == D

AccessDeleteRow(D, id) ==
  [D EXCEPT !.access = {a \in @ : a.id # id}]

\* The level left out of the WHERE clause.
RepoHasEditAccessAnyLevel(D, projectID, userID) ==
  Cardinality({a \in D.access : a.project_id = projectID /\ a.user_id = userID}) > 0

RepoHasEditAccess(D, projectID, userID) ==
  Cardinality({a \in D.access : a.project_id = projectID /\ a.user_id = userID
                                 /\ a.level = "edit"}) > 0

\* Only rows of level view counted.
RepoHasViewAccessViewOnly(D, projectID, userID) ==
  Cardinality({a \in D.access : a.project_id = projectID /\ a.user_id = userID
                                 /\ a.level = "view"}) > 0

RepoHasViewAccess(D, projectID, userID) ==
  Cardinality({a \in D.access : a.project_id = projectID /\ a.user_id = userID}) > 0

\* ------------------------------------------------------------- services
\* The owner comparison dropped: whoever asks about an existing project owns it.
IsOwnerAnyUser(D, projectID, userID) ==
  LET g == ProjectGetByID(D, projectID)
  IN IF g.err # "nil" THEN [ok |-> FALSE, err |-> g.err]
     ELSE [ok |-> TRUE, err |-> "nil"]

IsOwner(D, projectID, userID) ==
  LET g == ProjectGetByID(D, projectID)
  IN IF g.err # "nil" THEN [ok |-> FALSE, err |-> g.err]
     ELSE [ok |-> g.project.owner = userID, err |-> "nil"]

HasEditAccess(D, projectID, userID) ==
  LET g == ProjectGetByID(D, projectID)
  IN IF g.err # "nil" THEN [ok |-> FALSE, err |-> g.err]
     ELSE IF g.project.owner = userID THEN [ok |-> TRUE, err |-> "nil"]
     ELSE [ok |-> RepoHasEditAccess(D, projectID, userID), err |-> "nil"]

\* A missing project reported as "no access" instead of as an error.
HasViewAccessFalseOnMissing(D, projectID, userID) ==
  LET g == ProjectGetByID(D, projectID)
  IN IF g.err # "nil" THEN [ok |-> FALSE, err |-> "nil"]
     ELSE IF g.project.owner = userID THEN [ok |-> TRUE, err |-> "nil"]
     ELSE [ok |-> RepoHasViewAccess(D, projectID, userID), err |-> "nil"]

HasViewAccess(D, projectID, userID) ==
  LET g == ProjectGetByID(D, projectID)
  IN IF g.err # "nil" THEN [ok |-> FALSE, err |-> g.err]
     ELSE IF g.project.owner = userID THEN [ok |-> TRUE, err |-> "nil"]
     ELSE [ok |-> RepoHasViewAccess(D, projectID, userID), err |-> "nil"]

\* ------------------------------------------------------------- requests
NoReq == [op |-> "none", user |-> 0, pid |-> 0, aid |-> 0, target |-> 0,
          level |-> "", name |-> "", pc |-> "done", status |-> 0, buf |-> ""]

Req(op, user, pid, aid, target, level, name, pc) ==
  [op |-> op, user |-> user, pid |-> pid, aid |-> aid, target |-> target,
   level |-> level, name |-> name, pc |-> pc, status |-> 0, buf |-> ""]

Goto(D, r, pc) == [db |-> D, req |-> [r EXCEPT !.pc = pc]]
Respond(D, r, status) == [db |-> D, req |-> [r EXCEPT !.pc = "done", !.status = status]]

\* ProjectHandler.CreateProject -> ProjectService.Create -> ProjectRepository.Create
StepCreateProject(D, r) ==
  CASE r.pc = "count" ->
         IF ProjectCount(D, r.name, r.user) > 0 THEN Respond(D, r, 409)
         ELSE Goto(D, r, "insert")
    [] r.pc = "insert" ->
         Respond(ProjectInsert(D, r.name, r.user), r, 201)

\* The self-grant test dropped.
SelfGrantNever(r) == FALSE

\* "Don't allow granting access to the owner"
SelfGrant(r) == r.target = r.user

\* The handler's answer to an error of ProjectAccessService.GrantAccess.
GrantAccessError(err) == IF err = "ErrProjectAccessExists" THEN 409 ELSE 500

\* ProjectAccessHandler.GrantAccess -> ProjectAccessService.GrantAccess
\*   -> ProjectAccessRepository.Create
StepGrantAccess(D, r) ==
  CASE r.pc = "isOwner" ->
         LET o == IsOwner(D, r.pid, r.user)
         IN IF o.err = "ErrProjectNotFound" THEN Respond(D, r, 404)
            ELSE IF ~o.ok THEN Respond(D, r, 403)
            ELSE IF SelfGrant(r) THEN Respond(D, r, 400)
            ELSE Goto(D, r, "getProject")
    [] r.pc = "getProject" ->
         LET g == ProjectGetByID(D, r.pid)
         IN IF g.err # "nil" THEN Respond(D, r, GrantAccessError(g.err))
            ELSE Goto(D, r, "getUser")
    [] r.pc = "getUser" ->
         IF UserGetByID(r.target) # "nil"
         THEN Respond(D, r, GrantAccessError(UserGetByID(r.target)))
         ELSE Goto(D, r, "count")
    [] r.pc = "count" ->
         IF AccessCount(D, r.pid, r.target) > 0
         THEN Respond(D, r, GrantAccessError("ErrProjectAccessExists"))
         ELSE Goto(D, r, "insert")
    [] r.pc = "insert" ->
         LET i == AccessInsert(D, r.pid, r.target, r.level)
         IN IF i.err # "nil" THEN Respond(D, r, GrantAccessError(i.err))
            ELSE Respond(i.db, r, 201)

\* ProjectAccessHandler.UpdateAccess -> ProjectAccessService.UpdateAccess
\*   -> ProjectAccessRepository.GetByID, Update
StepUpdateAccess(D, r) ==
  CASE r.pc = "isOwner" ->
         LET o == IsOwner(D, r.pid, r.user)
         IN IF o.err = "ErrProjectNotFound" THEN Respond(D, r, 404)
            ELSE IF ~o.ok THEN Respond(D, r, 403)
            ELSE Goto(D, r, "svcGet")
    [] r.pc = "svcGet" ->
         IF AccessGetByID(D, r.aid).err # "nil" THEN Respond(D, r, 404)
         ELSE Goto(D, r, "repoGet")
    [] r.pc = "repoGet" ->
         IF AccessGetByID(D, r.aid).err # "nil" THEN Respond(D, r, 404)
         ELSE Goto(D, r, "update")
    [] r.pc = "update" ->
         Respond(AccessUpdateRow(D, r.aid, r.level), r, 200)

\* ProjectAccessHandler.RevokeAccess -> ProjectAccessService.RevokeAccess
\*   -> ProjectAccessRepository.Delete
StepRevokeAccess(D, r) ==
  CASE r.pc = "isOwner" ->
         LET o == IsOwner(D, r.pid, r.user)
         IN IF o.err = "ErrProjectNotFound" THEN Respond(D, r, 404)
            ELSE IF ~o.ok THEN Respond(D, r, 403)
            ELSE Goto(D, r, "repoGet")
    [] r.pc = "repoGet" ->
         IF AccessGetByID(D, r.aid).err # "nil" THEN Respond(D, r, 404)
         ELSE Goto(D, r, "delete")
    [] r.pc = "delete" ->
         Respond(AccessDeleteRow(D, r.aid), r, 200)

\* ProjectHandler.GetProject -> ProjectAccessService.HasViewAccess, ProjectService.GetByID
StepGetProject(D, r) ==
  CASE r.pc = "access" ->
         LET h == HasViewAccess(D, r.pid, r.user)
         IN IF h.err = "ErrProjectNotFound" THEN Respond(D, r, 404)
            ELSE IF ~h.ok /\ RoleOf[r.user] # RoleAdmin THEN Respond(D, r, 403)
            ELSE Goto(D, r, "svcGet")
    [] r.pc = "svcGet" ->
         IF ProjectGetByID(D, r.pid).err = "ErrProjectNotFound" THEN Respond(D, r, 404)
         ELSE Respond(D, r, 200)

\* ProjectHandler.UpdateProject -> ProjectAccessService.HasEditAccess,
\*   ProjectService.Update -> ProjectRepository.GetByID, Update
StepUpdateProject(D, r) ==
  CASE r.pc = "access" ->
         LET h == HasEditAccess(D, r.pid, r.user)
         IN IF h.err = "ErrProjectNotFound" THEN Respond(D, r, 404)
            ELSE IF ~h.ok /\ RoleOf[r.user] # RoleAdmin THEN Respond(D, r, 403)
            ELSE Goto(D, r, "svcGet")
    [] r.pc = "svcGet" ->
         LET g == ProjectGetByID(D, r.pid)
         IN IF g.err = "ErrProjectNotFound" THEN Respond(D, r, 404)
            ELSE [db |-> D,
                  req |-> [r EXCEPT !.pc = "repoGet",
                                    !.buf = IF r.name # "" THEN r.name ELSE g.project.name]]
    [] r.pc = "repoGet" ->
         IF ProjectGetByID(D, r.pid).err = "ErrProjectNotFound" THEN Respond(D, r, 404)
         ELSE Goto(D, r, "update")
    [] r.pc = "update" ->
         Respond(ProjectUpdateRow(D, r.pid, r.buf), r, 200)

\* DeleteProject without the admin's exemption from the owner test.
StepDeleteProjectOwnerOnly(D, r) ==
  CASE r.pc = "isOwner" ->
         LET o == IsOwner(D, r.pid, r.user)
         IN IF o.err = "ErrProjectNotFound" THEN Respond(D, r, 404)
            ELSE IF ~o.ok THEN Respond(D, r, 403)
            ELSE Goto(D, r, "repoGet")
    [] r.pc = "repoGet" ->
         IF ProjectGetByID(D, r.pid).err = "ErrProjectNotFound" THEN Respond(D, r, 404)
         ELSE Goto(D, r, "delete")
    [] r.pc = "delete" ->
         Respond(ProjectDeleteRow(D, r.pid), r, 200)

\* ProjectHandler.DeleteProject -> ProjectService.IsOwner, Delete
\*   -> ProjectRepository.Delete
StepDeleteProject(D, r) ==
  CASE r.pc = "isOwner" ->
         LET o == IsOwner(D, r.pid, r.user)
         IN IF o.err = "ErrProjectNotFound" THEN Respond(D, r, 404)
            ELSE IF ~o.ok /\ RoleOf[r.user] # RoleAdmin THEN Respond(D, r, 403)
            ELSE Goto(D, r, "repoGet")
    [] r.pc = "repoGet" ->
         IF ProjectGetByID(D, r.pid).err = "ErrProjectNotFound" THEN Respond(D, r, 404)
         ELSE Goto(D, r, "delete")
    [] r.pc = "delete" ->
         Respond(ProjectDeleteRow(D, r.pid), r, 200)

Step(D, r) ==
  CASE r.op = "CreateProject" -> StepCreateProject(D, r)
    [] r.op = "GetProject" -> StepGetProject(D, r)
    [] r.op = "UpdateProject" -> StepUpdateProject(D, r)
    [] r.op = "DeleteProject" -> StepDeleteProject(D, r)
    [] r.op = "GrantAccess" -> StepGrantAccess(D, r)
    [] r.op = "UpdateAccess" -> StepUpdateAccess(D, r)
    [] r.op = "RevokeAccess" -> StepRevokeAccess(D, r)

\* A handler served without any other request in between.
RECURSIVE Run(_, _)
Run(D, r) ==
  IF r.pc = "done" THEN [db |-> D, req |-> r]
  ELSE LET s == Step(D, r) IN Run(s.db, s.req)

\* The requests a client can send.
CreateProjectRequests ==
  {Req("CreateProject", u, 0, 0, 0, "", n, "count") : u \in Creators, n \in Names}
GetProjectRequests ==
  {Req("GetProject", u, p, 0, 0, "", "", "access") : u \in Users, p \in ProjectIDs}
UpdateProjectRequests ==
  {Req("UpdateProject", u, p, 0, 0, "", n, "access") :
     u \in Users, p \in ProjectIDs, n \in Names \cup {""}}
DeleteProjectRequests ==
  {Req("DeleteProject", u, p, 0, 0, "", "", "isOwner") : u \in Users, p \in ProjectIDs}
GrantAccessRequests ==
  {Req("GrantAccess", u, p, 0, t, l, "", "isOwner") :
     u \in Users, p \in ProjectIDs, t \in UserIDs, l \in Levels}
UpdateAccessRequests ==
  {Req("UpdateAccess", u, p, a, 0, l, "", "isOwner") :
     u \in Users, p \in ProjectIDs, a \in AccessIDs, l \in Levels}
RevokeAccessRequests ==
  {Req("RevokeAccess", u, p, a, 0, "", "", "isOwner") :
     u \in Users, p \in ProjectIDs, a \in AccessIDs}
Requests ==
  CreateProjectRequests \cup GetProjectRequests \cup UpdateProjectRequests
  \cup DeleteProjectRequests \cup GrantAccessRequests \cup UpdateAccessRequests
  \cup RevokeAccessRequests

InBounds(D) == D.nextProjectID <= MaxProjects + 1 /\ D.nextAccessID <= MaxAccess + 1

Install(D) ==
  /\ projects' = D.projects
  /\ access' = D.access
  /\ nextProjectID' = D.nextProjectID
  /\ nextAccessID' = D.nextAccessID

Init ==
  /\ projects = {}
  /\ access = {}
  /\ nextProjectID = 1
  /\ nextAccessID = 1
  /\ inflight = [s \in Slots |-> NoReq]

\* Each handler, served alone: the store becomes what its run leaves.
CreateProject ==
  \E r \in CreateProjectRequests :
    LET res == Run(DB, r)
    IN /\ InBounds(res.db)
       /\ Install(res.db)
       /\ UNCHANGED inflight

GetProject ==
  \E r \in GetProjectRequests :
    LET res == Run(DB, r)
    IN /\ InBounds(res.db)
       /\ Install(res.db)
       /\ UNCHANGED inflight

UpdateProject ==
  \E r \in UpdateProjectRequests :
    LET res == Run(DB, r)
    IN /\ InBounds(res.db)
       /\ Install(res.db)
       /\ UNCHANGED inflight

DeleteProject ==
  \E r \in DeleteProjectRequests :
    LET res == Run(DB, r)
    IN /\ InBounds(res.db)
       /\ Install(res.db)
       /\ UNCHANGED inflight

GrantAccess ==
  \E r \in GrantAccessRequests :
    LET res == Run(DB, r)
    IN /\ InBounds(res.db)
       /\ Install(res.db)
       /\ UNCHANGED inflight

UpdateAccess ==
  \E r \in UpdateAccessRequests :
    LET res == Run(DB, r)
    IN /\ InBounds(res.db)
       /\ Install(res.db)
       /\ UNCHANGED inflight

RevokeAccess ==
  \E r \in RevokeAccessRequests :
    LET res == Run(DB, r)
    IN /\ InBounds(res.db)
       /\ Install(res.db)
       /\ UNCHANGED inflight

Next ==
  \/ CreateProject
  \/ GetProject
  \/ UpdateProject
  \/ DeleteProject
  \/ GrantAccess
  \/ UpdateAccess
  \/ RevokeAccess

Spec == Init /\ [][Next]_vars


\* ------------------------------------------------------------------------
\* Two requests at a time on a project that account 1 has created: each slot
\* takes a request and serves it call by call, the calls of the two slots in
\* any order.  A request enters a slot with its first call; one that its
\* first call already answers has no call left to interleave and is served
\* as under Spec.  Of an answered request the slot keeps the handler and the
\* status.
Settle(r) ==
  IF r.pc = "done" THEN [NoReq EXCEPT !.op = r.op, !.status = r.status] ELSE r

EmptyDB == [projects |-> {}, access |-> {}, nextProjectID |-> 1, nextAccessID |-> 1]

InitConc ==
  LET D == Run(EmptyDB, Req("CreateProject", 1, 0, 0, 0, "", "alpha", "count")).db
  IN /\ projects = D.projects
     /\ access = D.access
     /\ nextProjectID = D.nextProjectID
     /\ nextAccessID = D.nextAccessID
     /\ inflight = [s \in Slots |-> NoReq]

DeleteProjectCall ==
  \E s \in Slots :
    \/ \E r \in DeleteProjectRequests :
         LET res == Step(DB, r)
         IN /\ inflight[s].pc = "done"
            /\ res.req.pc # "done"
            /\ Install(res.db)
            /\ inflight' = [inflight EXCEPT ![s] = res.req]
    \/ LET res == Step(DB, inflight[s])
       IN /\ inflight[s].pc # "done"
          /\ inflight[s].op = "DeleteProject"
          /\ InBounds(res.db)
          /\ Install(res.db)
          /\ inflight' = [inflight EXCEPT ![s] = Settle(res.req)]

GrantAccessCall ==
  \E s \in Slots :
    \/ \E r \in GrantAccessRequests :
         LET res == Step(DB, r)
         IN /\ inflight[s].pc = "done"
            /\ res.req.pc # "done"
            /\ Install(res.db)
            /\ inflight' = [inflight EXCEPT ![s] = res.req]
    \/ LET res == Step(DB, inflight[s])
       IN /\ inflight[s].pc # "done"
          /\ inflight[s].op = "GrantAccess"
          /\ InBounds(res.db)
          /\ Install(res.db)
          /\ inflight' = [inflight EXCEPT ![s] = Settle(res.req)]

UpdateAccessCall ==
  \E s \in Slots :
    \/ \E r \in UpdateAccessRequests :
         LET res == Step(DB, r)
         IN /\ inflight[s].pc = "done"
            /\ res.req.pc # "done"
            /\ Install(res.db)
            /\ inflight' = [inflight EXCEPT ![s] = res.req]
    \/ LET res == Step(DB, inflight[s])
       IN /\ inflight[s].pc # "done"
          /\ inflight[s].op = "UpdateAccess"
          /\ InBounds(res.db)
          /\ Install(res.db)
          /\ inflight' = [inflight EXCEPT ![s] = Settle(res.req)]

RevokeAccessCall ==
  \E s \in Slots :
    \/ \E r \in RevokeAccessRequests :
         LET res == Step(DB, r)
         IN /\ inflight[s].pc = "done"
            /\ res.req.pc # "done"
            /\ Install(res.db)
            /\ inflight' = [inflight EXCEPT ![s] = res.req]
    \/ LET res == Step(DB, inflight[s])
       IN /\ inflight[s].pc # "done"
          /\ inflight[s].op = "RevokeAccess"
          /\ InBounds(res.db)
          /\ Install(res.db)
          /\ inflight' = [inflight EXCEPT ![s] = Settle(res.req)]

NextConc ==
  \/ DeleteProjectCall
  \/ GrantAccessCall
  \/ UpdateAccessCall
  \/ RevokeAccessCall

SpecConc == InitConc /\ [][NextConc]_vars

\* ------------------------------------------------------------------------
\* Listings.  A listing reads the store and changes nothing; what it returns
\* depends on the order in which the store hands out rows.  Where the query
\* does not settle that order (no ORDER BY, or equal created_at) every order
\* is possible, and the operators below take the rows as they came.
MaxListed == 5
MaxGranted == 2
IntBits == 8
DefaultPageSize == 10

\* Go's int, at IntBits bits instead of 64: arithmetic wraps around.
WrapInt(x) == ((x + 2^(IntBits - 1)) % 2^IntBits) - 2^(IntBits - 1)

Pages == 0..(MaxListed + 1)
\* Pages near the greatest int: strconv.Atoi hands the handler any int.
MaxInt == 2^(IntBits - 1) - 1
LargePages == {2^(IntBits - 2) + 1, MaxInt}
PageSizes == {0, 1, 2, DefaultPageSize}

RECURSIVE Orders(_)
Orders(S) ==
  IF S = {} THEN {<<>>}
  ELSE UNION {{<<x>> \o t : t \in Orders(S \ {x})} : x \in S}

\* ORDER BY created_at ASC instead of DESC.
RECURSIVE OrderByCreatedAtAsc(_)
OrderByCreatedAtAsc(S) ==
  IF S = {} THEN {<<>>}
  ELSE UNION {{<<x>> \o t : t \in OrderByCreatedAtAsc(S \ {x})}
                : x \in {y \in S : \A z \in S : y.created_at <= z.created_at}}

\* ORDER BY created_at DESC: rows of one created_at in any order.
RECURSIVE OrderByCreatedAtDesc(_)
OrderByCreatedAtDesc(S) ==
  IF S = {} THEN {<<>>}
  ELSE UNION {{<<x>> \o t : t \in OrderByCreatedAtDesc(S \ {x})}
                : x \in {y \in S : \A z \in S : y.created_at >= z.created_at}}

\* The results ProjectRepository.ListByOwner can return.
ListByOwner(D, ownerID) ==
  OrderByCreatedAtDesc({p \in D.projects : p.owner = ownerID})

\* The results ProjectAccessRepository.GetProjectIDsByUserAccess can return.
GetProjectIDsByUserAccess(D, userID) ==
  {[i \in 1..Len(rows) |-> rows[i].project_id]
     : rows \in Orders({a \in D.access : a.user_id = userID})}

\* ProjectRepository.List: LIMIT limit OFFSET offset of all projects in the
\* order all; the store refuses a negative offset.
ProjectRepoList(all, limit, offset) ==
  IF offset < 0 \/ limit < 0 THEN [err |-> "sqlError", projects |-> <<>>]
  ELSE [err |-> "nil",
        projects |-> SubSeq(all, offset + 1,
                            IF offset + limit > Len(all) THEN Len(all) ELSE offset + limit)]

\* The page taken as given, below 1 too.
NormPageAsGiven(page) == page

NormPage(page) == IF page < 1 THEN 1 ELSE page

\* A non-positive page size raised to 1.
NormPageSizeOne(pageSize) == IF pageSize < 1 THEN 1 ELSE pageSize

NormPageSize(pageSize) == IF pageSize < 1 THEN DefaultPageSize ELSE pageSize

\* ProjectService.List
ProjectServiceList(all, page, pageSize) ==
  LET offset == WrapInt((NormPage(page) - 1) * NormPageSize(pageSize))
  IN ProjectRepoList(all, NormPageSize(pageSize), offset)

\* The page counted from 0: start one page too far.
PaginateFromNextPage(list, page, pageSize) ==
  LET start == WrapInt(page * pageSize)
      sum == WrapInt(start + pageSize)
      end == IF sum > Len(list) THEN Len(list) ELSE sum
  IN IF start >= Len(list) THEN [err |-> "nil", projects |-> <<>>]
     ELSE IF start < 0 \/ end < start THEN [err |-> "panic", projects |-> <<>>]
     ELSE [err |-> "nil", projects |-> SubSeq(list, start + 1, end)]

\* "Apply pagination": list[start:end]; a slice expression with a negative
\* start or with end < start panics.
Paginate(list, page, pageSize) ==
  LET start == WrapInt((page - 1) * pageSize)
      sum == WrapInt(start + pageSize)
      end == IF sum > Len(list) THEN Len(list) ELSE sum
  IN IF start >= Len(list) THEN [err |-> "nil", projects |-> <<>>]
     ELSE IF start < 0 \/ end < start THEN [err |-> "panic", projects |-> <<>>]
     ELSE [err |-> "nil", projects |-> SubSeq(list, start + 1, end)]

\* Every fetched id kept, owned or not.
FilterOwnedKeepAll(ownedProjects, accessibleProjectIDs) == accessibleProjectIDs

\* "Filter out project IDs that are already owned by the user"
FilterOwned(ownedProjects, accessibleProjectIDs) ==
  SelectSeq(accessibleProjectIDs,
            LAMBDA id : ~ \E i \in 1..Len(ownedProjects) : ownedProjects[i].id = id)

\* An id that cannot be read kept, as the empty project the lookup hands back.
RECURSIVE ResolveProjectsKeepMissing(_, _)
ResolveProjectsKeepMissing(D, ids) ==
  IF ids = <<>> THEN <<>>
  ELSE <<ProjectGetByID(D, Head(ids)).project>> \o ResolveProjectsKeepMissing(D, Tail(ids))

\* "Get projects the user has access to": ids that cannot be read are skipped.
RECURSIVE ResolveProjects(_, _)
ResolveProjects(D, ids) ==
  IF ids = <<>> THEN <<>>
  ELSE LET g == ProjectGetByID(D, Head(ids))
       IN (IF g.err # "nil" THEN <<>> ELSE <<g.project>>) \o ResolveProjects(D, Tail(ids))

\* ProjectAccessService.GetAccessibleProjects from the point where its two
\* queries have returned ownedProjects and accessibleProjectIDs.
AccessibleProjectsFrom(D, ownedProjects, accessibleProjectIDs, page, pageSize) ==
  LET uniqueAccessibleProjectIDs == FilterOwned(ownedProjects, accessibleProjectIDs)
  IN IF Len(accessibleProjectIDs) = 0 /\ Len(ownedProjects) = 0
     THEN [err |-> "nil", projects |-> <<>>]
     ELSE IF Len(uniqueAccessibleProjectIDs) = 0
     THEN Paginate(ownedProjects, NormPage(page), NormPageSize(pageSize))
     ELSE Paginate(ownedProjects \o ResolveProjects(D, uniqueAccessibleProjectIDs),
                   NormPage(page), NormPageSize(pageSize))

\* What ProjectAccessService.GetAccessibleProjects can return in the store D.
GetAccessibleProjects(D, userID, page, pageSize) ==
  {AccessibleProjectsFrom(D, o, f, page, pageSize)
     : o \in ListByOwner(D, userID), f \in GetProjectIDsByUserAccess(D, userID)}

\* ProjectHandler.ListProjects: the responses it can give.
ListProjectsResponses(D, user, page, pageSize) ==
  LET results == IF RoleOf[user] = RoleAdmin
                 THEN {ProjectServiceList(all, page, pageSize)
                         : all \in OrderByCreatedAtDesc(D.projects)}
                 ELSE GetAccessibleProjects(D, user, page, pageSize)
  IN {IF x.err # "nil" THEN [status |-> 500, projects |-> <<>>]
      ELSE [status |-> 200, projects |-> x.projects] : x \in results}

\* The stores a listing is applied to: up to MaxListed projects, created two
\* to a tick of the clock, up to MaxGranted of them with a grant row for
\* account 1.  Seen from account 1, a project is its own
\* ("owned"), its own with a grant row naming account 1 as well ("stray"),
\* account 2's with a grant for account 1 ("granted"), or account 2's without
\* a grant ("foreign").  Grants on projects of odd id are of level view, the
\* others of level edit.
Kinds == {"owned", "stray", "granted", "foreign"}

ListedStore(kind) ==
  LET n == Len(kind)
  IN [projects |-> {[id |-> i, name |-> "alpha",
                     owner |-> IF kind[i] \in {"owned", "stray"} THEN 1 ELSE 2,
                     created_at |-> (i + 1) \div 2] : i \in 1..n},
      access |-> {[id |-> i, project_id |-> i, user_id |-> 1,
                   level |-> IF i % 2 = 1 THEN AccessLevelView ELSE AccessLevelEdit,
                   created_at |-> n + i]
                    : i \in {j \in 1..n : kind[j] \in {"stray", "granted"}}},
      nextProjectID |-> n + 1,
      nextAccessID |-> n + 1]

InitList ==
  \E n \in 0..MaxListed : \E kind \in [1..n -> Kinds] :
    /\ Cardinality(ListedStore(kind).access) <= MaxGranted
    /\ projects = ListedStore(kind).projects
    /\ access = ListedStore(kind).access
    /\ nextProjectID = ListedStore(kind).nextProjectID
    /\ nextAccessID = ListedStore(kind).nextAccessID
    /\ inflight = [s \in Slots |-> NoReq]

ListProjects ==
  \E u \in Users, page \in Pages \cup LargePages, pageSize \in PageSizes :
    \E response \in ListProjectsResponses(DB, u, page, pageSize) :
      /\ response.status \in {200, 500}
      /\ UNCHANGED vars

NextList == ListProjects

SpecList == InitList /\ [][NextList]_vars

\* ------------------------------------------------------------------------
\* CreateProject requests served side by side on the empty store, a step
\* being one call into the store: the SELECT COUNT of
\* ProjectRepository.Create, then its INSERT.
CreateProjectCall ==
  \E s \in Slots :
    \/ \E r \in CreateProjectRequests :
         LET res == Step(DB, r)
         IN /\ inflight[s].pc = "done"
            /\ Install(res.db)
            /\ inflight' = [inflight EXCEPT ![s] = Settle(res.req)]
    \/ LET res == Step(DB, inflight[s])
       IN /\ inflight[s].pc # "done"
          /\ inflight[s].op = "CreateProject"
          /\ InBounds(res.db)
          /\ Install(res.db)
          /\ inflight' = [inflight EXCEPT ![s] = Settle(res.req)]

NextCreate == CreateProjectCall

SpecCreate == Init /\ [][NextCreate]_vars

\* ------------------------------------------------------------------------
\* Listings of grants.  The stores they are applied to: project 1 of account
\* 1 and project 2 of account 2, and for every account that does not own the
\* project no grant, or a grant of either level created at one of MaxTick
\* ticks of the clock.
MaxTick == 2
Ticks == 1..MaxTick
GrantPairs == {<<p, u>> \in {1, 2} \X Users : u # p}
GrantChoices == {<<"none", 0>>} \cup (Levels \X Ticks)
ListProjectIDs == 1..(MaxProjects + 1)

\* The WHERE clause dropped: the grants of every project.
ListByProjectUnfiltered(D, projectID) == OrderByCreatedAtDesc(D.access)

\* The results ProjectAccessRepository.ListByProject can return.
ListByProject(D, projectID) ==
  OrderByCreatedAtDesc({a \in D.access : a.project_id = projectID})

\* ProjectAccessHandler.ListAccess: the responses it can give.
ListAccessResponses(D, user, projectID) ==
  LET o == IsOwner(D, projectID, user)
  IN IF o.err = "ErrProjectNotFound" THEN {[status |-> 404, access |-> <<>>]}
     ELSE IF ~o.ok THEN {[status |-> 403, access |-> <<>>]}
     ELSE {[status |-> 200, access |-> l] : l \in ListByProject(D, projectID)}

GrantStore(choice) ==
  [projects |-> {[id |-> p, name |-> "alpha", owner |-> p, created_at |-> 0]
                   : p \in {1, 2}},
   access |-> {[id |-> 2 * (g[1] - 1) + (IF g[2] = 3 THEN 2 ELSE 1),
                project_id |-> g[1], user_id |-> g[2],
                level |-> choice[g][1], created_at |-> choice[g][2]]
                 : g \in {h \in GrantPairs : choice[h][1] # "none"}},
   nextProjectID |-> 3,
   nextAccessID |-> 5]

InitGrants ==
  \E choice \in [GrantPairs -> GrantChoices] :
    /\ projects = GrantStore(choice).projects
    /\ access = GrantStore(choice).access
    /\ nextProjectID = GrantStore(choice).nextProjectID
    /\ nextAccessID = GrantStore(choice).nextAccessID
    /\ inflight = [s \in Slots |-> NoReq]

ListAccess ==
  \E u \in Users, p \in ListProjectIDs :
    \E response \in ListAccessResponses(DB, u, p) :
      /\ response.status \in {200, 403, 404}
      /\ UNCHANGED vars

NextGrants == ListAccess

SpecGrants == InitGrants /\ [][NextGrants]_vars

\* ------------------------------------------------------------------------
\* What the claims speak of, in the store's own terms.
ProjectExists(pid) == \E p \in projects : p.id = pid
Owns(u, pid) == \E p \in projects : p.id = pid /\ p.owner = u
GrantsOf(pid, u) == {a \in access : a.project_id = pid /\ a.user_id = u}
Status(r) == Run(DB, r).req.status
Leaves(r) == Run(DB, r).db

\* C1: at most one grant per (project_id, user_id), whatever the order of the
\* calls of concurrent grantAccess, updateAccess, revokeAccess and project
\* deletion.
C1_OneGrantPerPair ==
  \A a \in access, b \in access :
    (a.project_id = b.project_id /\ a.user_id = b.user_id) => a = b

\* Two grantAccess of one pair both passed Create's count; one has inserted,
\* the other one's INSERT is about to be refused.
C1_Witness ==
  \E s \in Slots :
    /\ inflight[s].op = "GrantAccess" /\ inflight[s].pc = "insert"
    /\ GrantsOf(inflight[s].pid, inflight[s].target) # {}
    /\ Step(DB, inflight[s]).db = DB

\* C2: updateAccess and revokeAccess leave a grant as it is unless the
\* requester owns the project the grant belongs to, whatever project id the
\* request names.
C2_OnlyGrantOwnerMutates ==
  \A r \in UpdateAccessRequests \cup RevokeAccessRequests :
    \A a \in access :
      (a.id = r.aid /\ ~Owns(r.user, a.project_id)) => a \in Leaves(r).access

\* C3: hasViewAccess(P,U) is true exactly when U owns P or holds a grant of
\* any level on P.
C3_HasViewAccess ==
  \A p \in projects : \A u \in Users \cup UserIDs :
    HasViewAccess(DB, p.id, u) =
      [ok |-> (u = p.owner \/ GrantsOf(p.id, u) # {}), err |-> "nil"]

\* An edit grant of a user who is not the owner gives view access; the owner
\* has it with no grant row; a user with neither is refused.
C3_Witness ==
  \E p \in projects, a \in access, u \in Users :
    /\ a.project_id = p.id /\ a.level = AccessLevelEdit /\ a.user_id # p.owner
    /\ HasViewAccess(DB, p.id, a.user_id).ok
    /\ GrantsOf(p.id, p.owner) = {} /\ HasViewAccess(DB, p.id, p.owner).ok
    /\ u # p.owner /\ GrantsOf(p.id, u) = {} /\ ~HasViewAccess(DB, p.id, u).ok

\* C4: hasEditAccess(P,U) is true exactly when U owns P or holds a grant of
\* level edit on P.
C4_HasEditAccess ==
  \A p \in projects : \A u \in Users \cup UserIDs :
    HasEditAccess(DB, p.id, u) =
      [ok |-> (u = p.owner \/ \E a \in GrantsOf(p.id, u) : a.level = AccessLevelEdit),
       err |-> "nil"]

\* A view grant alone gives no edit access, an edit grant does.
C4_Witness ==
  \E a \in access, b \in access :
    /\ a.level = AccessLevelView /\ ~Owns(a.user_id, a.project_id)
    /\ ~HasEditAccess(DB, a.project_id, a.user_id).ok
    /\ b.level = AccessLevelEdit /\ ~Owns(b.user_id, b.project_id)
    /\ HasEditAccess(DB, b.project_id, b.user_id).ok

\* C5: on an existing project, grantAccess, updateAccess and revokeAccess of a
\* requester who is neither its owner nor an admin are answered 403 and
\* change nothing, whatever the target.
C5_NonOwnerDenied ==
  \A r \in GrantAccessRequests \cup UpdateAccessRequests \cup RevokeAccessRequests :
    (ProjectExists(r.pid) /\ ~Owns(r.user, r.pid) /\ RoleOf[r.user] # RoleAdmin)
      => (Status(r) = 403 /\ Leaves(r) = DB)

\* A non-owner is refused on an existing grant, on a missing grant, for a
\* target that is no user and for themself as the target.
C5_Witness ==
  \E r1 \in UpdateAccessRequests, r2 \in RevokeAccessRequests,
     r3 \in GrantAccessRequests, r4 \in GrantAccessRequests :
    /\ \A r \in {r1, r2, r3, r4} :
         ProjectExists(r.pid) /\ ~Owns(r.user, r.pid) /\ RoleOf[r.user] # RoleAdmin
           /\ Status(r) = 403
    /\ \E a \in access : a.id = r1.aid /\ a.project_id = r1.pid
    /\ ~ \E a \in access : a.id = r2.aid
    /\ r3.target \notin Users
    /\ r4.target = r4.user

\* C6: no grant names the owner of its project as its user.
C6_NoOwnerGrant ==
  \A a \in access : ~Owns(a.user_id, a.project_id)

\* Grants exist, and the owner's grant to themself was turned down.
C6_Witness ==
  /\ access # {}
  /\ \E r \in GrantAccessRequests :
       Owns(r.user, r.pid) /\ r.target = r.user /\ Leaves(r) = DB

\* C7: grantAccess by the owner for a pair that already has a grant is
\* answered 409 and leaves the existing grant, level included, as it was.
C7_DuplicateConflict ==
  \A r \in GrantAccessRequests :
    (Owns(r.user, r.pid) /\ GrantsOf(r.pid, r.target) # {})
      => (Status(r) = 409 /\ Leaves(r) = DB)

\* A view grant exists and the owner asks for an edit grant of the same pair.
C7_Witness ==
  \E r \in GrantAccessRequests, a \in access :
    /\ Owns(r.user, r.pid) /\ a \in GrantsOf(r.pid, r.target)
    /\ a.level = AccessLevelView /\ r.level = AccessLevelEdit
    /\ Status(r) = 409

\* C8: grantAccess by the owner with the owner as the target is answered 400
\* and creates no grant.
C8_SelfGrantRejected ==
  \A r \in GrantAccessRequests :
    (Owns(r.user, r.pid) /\ r.target = r.user)
      => (Status(r) = 400 /\ Leaves(r) = DB)

\* The owner of an existing project names themself.
C8_Witness ==
  \E r \in GrantAccessRequests :
    Owns(r.user, r.pid) /\ r.target = r.user /\ Status(r) = 400

\* C9: grantAccess is answered 404 when the project does not exist and when
\* the target user does not exist, and creates no grant.
C9_GrantNotFound ==
  \A r \in GrantAccessRequests :
    (~ProjectExists(r.pid) \/ (Owns(r.user, r.pid) /\ r.target \notin Users))
      => (Status(r) = 404 /\ Leaves(r) = DB)

\* C10: on a project that does not exist hasViewAccess and hasEditAccess
\* fail with ErrProjectNotFound, and a view or an update of it is answered
\* 404 for every requester.
C10_MissingProjectNotFound ==
  \A pid \in ProjectIDs : ~ProjectExists(pid) =>
    /\ \A u \in Users :
         /\ HasViewAccess(DB, pid, u).err = "ErrProjectNotFound"
         /\ HasEditAccess(DB, pid, u).err = "ErrProjectNotFound"
    /\ \A r \in GetProjectRequests \cup UpdateProjectRequests :
         r.pid = pid => (Status(r) = 404 /\ Leaves(r) = DB)

\* A project that was deleted is asked for by its former owner and by the admin.
C10_Witness ==
  \E pid \in ProjectIDs, r1 \in GetProjectRequests, r2 \in UpdateProjectRequests :
    /\ pid < nextProjectID /\ ~ProjectExists(pid)
    /\ r1.pid = pid /\ RoleOf[r1.user] = RoleAdmin /\ Status(r1) = 404
    /\ r2.pid = pid /\ RoleOf[r2.user] # RoleAdmin /\ Status(r2) = 404

\* C11: updateAccess and revokeAccess by the owner of the project named, with
\* an accessId that no grant has, are answered 404 and leave the grants as
\* they were.
C11_MissingGrantNotFound ==
  \A r \in UpdateAccessRequests \cup RevokeAccessRequests :
    (Owns(r.user, r.pid) /\ ~ \E a \in access : a.id = r.aid)
      => (Status(r) = 404 /\ Leaves(r) = DB)

\* Another grant exists; an owner asks to update and to revoke a grant that
\* was revoked before.
C11_Witness ==
  \E r1 \in UpdateAccessRequests, r2 \in RevokeAccessRequests :
    /\ access # {}
    /\ Owns(r1.user, r1.pid) /\ Owns(r2.user, r2.pid)
    /\ r1.aid < nextAccessID /\ r2.aid < nextAccessID
    /\ ~ \E a \in access : a.id \in {r1.aid, r2.aid}
    /\ Status(r1) = 404 /\ Status(r2) = 404

\* C12: of two concurrent grantAccess of one pair that both passed the
\* existence check, the one whose INSERT the unique key refuses is answered
\* 409 and stores nothing.
C12_LoserConflict ==
  \A s \in Slots :
    (/\ inflight[s].op = "GrantAccess" /\ inflight[s].pc = "insert"
     /\ GrantsOf(inflight[s].pid, inflight[s].target) # {})
      => (Step(DB, inflight[s]).req.status = 409 /\ Step(DB, inflight[s]).db = DB)

\* C13: an updateAccess answered 200 leaves the grant's user with view access
\* to the grant's project, and with edit access exactly if the new level is
\* edit.
C13_UpdateSetsLevel ==
  \A r \in UpdateAccessRequests : \A a \in access :
    (a.id = r.aid /\ Status(r) = 200) =>
      /\ HasViewAccess(Leaves(r), a.project_id, a.user_id).ok
      /\ HasEditAccess(Leaves(r), a.project_id, a.user_id).ok = (r.level = AccessLevelEdit)

\* A view grant is raised to edit and an edit grant lowered to view, each by
\* the owner of the grant's project.
C13_Witness ==
  \E r1 \in UpdateAccessRequests, r2 \in UpdateAccessRequests :
    \E a \in access, b \in access :
      /\ a.id = r1.aid /\ a.project_id = r1.pid /\ a.level = AccessLevelView
      /\ r1.level = AccessLevelEdit /\ Status(r1) = 200
      /\ ~HasEditAccess(DB, a.project_id, a.user_id).ok
      /\ HasEditAccess(Leaves(r1), a.project_id, a.user_id).ok
      /\ b.id = r2.aid /\ b.project_id = r2.pid /\ b.level = AccessLevelEdit
      /\ r2.level = AccessLevelView /\ Status(r2) = 200
      /\ HasEditAccess(DB, b.project_id, b.user_id).ok
      /\ ~HasEditAccess(Leaves(r2), b.project_id, b.user_id).ok

\* C14: a revokeAccess answered 200 leaves the grant's user without view and
\* without edit access to the grant's project, and a user who is not the owner
\* and has no view access gets none, view or edit, by any step that does not
\* create a grant for that user on that project.
C14_RevokedStaysRevoked ==
  /\ [](\A r \in RevokeAccessRequests : \A a \in access :
          (a.id = r.aid /\ Status(r) = 200) =>
            /\ ~HasViewAccess(Leaves(r), a.project_id, a.user_id).ok
            /\ ~HasEditAccess(Leaves(r), a.project_id, a.user_id).ok)
  /\ [][\A p \in ProjectIDs, u \in Users :
          (/\ ~HasViewAccess(DB, p, u).ok
           /\ ~Owns(u, p)'
           /\ HasViewAccess(DB, p, u)'.ok \/ HasEditAccess(DB, p, u)'.ok)
            => \E a \in access' \ access : a.project_id = p /\ a.user_id = u]_vars

\* An edit grant of a user who can see and edit the project is revoked.
C14_Witness ==
  \E r \in RevokeAccessRequests, a \in access :
    /\ a.id = r.aid /\ a.project_id = r.pid /\ a.level = AccessLevelEdit
    /\ HasEditAccess(DB, a.project_id, a.user_id).ok
    /\ Status(r) = 200
    /\ ~HasViewAccess(Leaves(r), a.project_id, a.user_id).ok

\* C15: every grant names a project that exists and a user that exists, also
\* while project deletions and grants run concurrently.
C15_NoDanglingGrant ==
  \A a \in access : ProjectExists(a.project_id) /\ a.user_id \in Users

\* A project that has grants is about to be deleted, and the DELETE takes its
\* grants along.
C15_Witness ==
  \E s \in Slots :
    /\ inflight[s].op = "DeleteProject" /\ inflight[s].pc = "delete"
    /\ \E a \in access : a.project_id = inflight[s].pid
    /\ ~ \E a \in Step(DB, inflight[s]).db.access : a.project_id = inflight[s].pid

\* C16: a project is created with the requester as its owner, and no step
\* changes the owner of a project.
C16_OwnerNeverChanges ==
  /\ [](\A r \in CreateProjectRequests :
          Status(r) = 201 =>
            /\ Leaves(r).projects # projects
            /\ \A q \in Leaves(r).projects \ projects : q.owner = r.user)
  /\ [][\A p \in projects : \A q \in projects' : q.id = p.id => q.owner = p.owner]_vars

\* A project is renamed by a user who has an edit grant on it and does not own
\* it, while its owner can still create another project.
C16_Witness ==
  \E r1 \in UpdateProjectRequests, r2 \in CreateProjectRequests :
    /\ ProjectExists(r1.pid) /\ ~Owns(r1.user, r1.pid) /\ RoleOf[r1.user] # RoleAdmin
    /\ Status(r1) = 200 /\ Leaves(r1) # DB
    /\ Owns(r2.user, r1.pid) /\ Status(r2) = 201

\* The pages 1, 2, ... of one listing, the accounts whose listing is
\* accessibleProjects (an admin's is not), and the projects a user owns.
PageNumbers == Pages \ {0}
Listers == {u \in Users : RoleOf[u] # RoleAdmin}
OwnedBy(u) == {p \in projects : p.owner = u}

\* The combined list of user u when the store hands out u's projects as o
\* and the project ids of u's grants as f.
GrantedIds(u, f) == SelectSeq(f, LAMBDA id : ~Owns(u, id))
Combined(u, o, f) ==
  o \o [j \in 1..Len(GrantedIds(u, f)) |->
         CHOOSE p \in projects : p.id = GrantedIds(u, f)[j]]

\* C17: over all pages of accessibleProjects(U, ., pageSize) taken in one
\* state no project appears twice, a project that U owns and also has a grant
\* row for included.
C17_NoProjectTwice ==
  \A u \in Listers :
    \A o \in ListByOwner(DB, u), f \in GetProjectIDsByUserAccess(DB, u) :
      \A pageSize \in PageSizes :
        \A pg \in {[p \in PageNumbers |->
                      AccessibleProjectsFrom(DB, o, f, p, pageSize).projects]} :
          \A p1 \in PageNumbers, p2 \in PageNumbers :
            \A i \in 1..Len(pg[p1]), j \in 1..Len(pg[p2]) :
              pg[p1][i].id = pg[p2][j].id => (p1 = p2 /\ i = j)

\* A user owns a project, has a stray grant row for it and a grant on
\* somebody else's project, and the owned project is on the first page.
C17_Witness ==
  \E u \in Users, a \in access, b \in access :
    /\ a.user_id = u /\ Owns(u, a.project_id)
    /\ b.user_id = u /\ ~Owns(u, b.project_id)
    /\ \E o \in ListByOwner(DB, u), f \in GetProjectIDsByUserAccess(DB, u) :
         LET l == AccessibleProjectsFrom(DB, o, f, 1, DefaultPageSize).projects
         IN /\ Cardinality({i \in 1..Len(l) : l[i].id = a.project_id}) = 1
            /\ \E i \in 1..Len(l) : l[i].id = b.project_id

\* C18: the first page of accessibleProjects, when it holds everything, is the
\* projects the user owns, newest first, followed by the projects of the
\* fetched grant ids that the user does not own, in the order fetched.
C18_OwnedThenGranted ==
  \A u \in Listers :
    \A o \in ListByOwner(DB, u), f \in GetProjectIDsByUserAccess(DB, u) :
      \A res \in {AccessibleProjectsFrom(DB, o, f, 1, DefaultPageSize)},
         k \in {Cardinality(OwnedBy(u))},
         granted \in {GrantedIds(u, f)} :
         /\ res.err = "nil"
         /\ Len(res.projects) = k + Len(granted)
         /\ {res.projects[i] : i \in 1..k} = OwnedBy(u)
         /\ \A i \in 1..(k - 1) :
              res.projects[i].created_at >= res.projects[i + 1].created_at
         /\ \A j \in 1..Len(granted) :
              /\ res.projects[k + j] \in projects
              /\ res.projects[k + j].id = granted[j]

\* A user owns three projects, not all created at once, and holds two grants
\* on projects of somebody else: page 1 of size 10 has five projects.
C18_Witness ==
  \E u \in Users :
    /\ Cardinality(OwnedBy(u)) = 3
    /\ \E p \in OwnedBy(u), q \in OwnedBy(u) : p.created_at < q.created_at
    /\ Cardinality({a \in access : a.user_id = u /\ ~Owns(u, a.project_id)}) = 2
    /\ \E o \in ListByOwner(DB, u), f \in GetProjectIDsByUserAccess(DB, u) :
         /\ Len(AccessibleProjectsFrom(DB, o, f, 1, DefaultPageSize).projects) = 5
         /\ f[1] > f[2]

\* C19: for page >= 1 and pageSize >= 1 accessibleProjects returns, without
\* error, the positions offset+1 .. min(offset+pageSize, length) of the
\* combined list, offset = (page-1)*pageSize, and nothing when offset >=
\* length, whether the user holds grants or not.
C19_PageIsSlice ==
  \A u \in Listers :
    \A o \in ListByOwner(DB, u), f \in GetProjectIDsByUserAccess(DB, u) :
      \A all \in {Combined(u, o, f)} :
        \A page \in Pages, pageSize \in PageSizes :
          (page >= 1 /\ pageSize >= 1) =>
            \A res \in {AccessibleProjectsFrom(DB, o, f, page, pageSize)} :
              LET offset == (page - 1) * pageSize
                  last == IF offset + pageSize < Len(all) THEN offset + pageSize
                          ELSE Len(all)
              IN /\ res.err = "nil"
                 /\ Len(res.projects) = (IF offset >= Len(all) THEN 0 ELSE last - offset)
                 /\ \A i \in 1..Len(res.projects) : res.projects[i] = all[offset + i]

\* A user with grants sees four projects: all on page 1 of size 10, two on
\* page 2 of size 2 and none on page 3; a user without grants sees three:
\* page 2 of size 2 has one project and page 3 none.
C19_Witness ==
  \E u1 \in Listers, u2 \in Listers :
    /\ \E a \in access : a.user_id = u1 /\ ~Owns(u1, a.project_id)
    /\ \E o \in ListByOwner(DB, u1), f \in GetProjectIDsByUserAccess(DB, u1) :
         /\ Len(Combined(u1, o, f)) = 4
         /\ Len(AccessibleProjectsFrom(DB, o, f, 1, DefaultPageSize).projects) = 4
         /\ Len(AccessibleProjectsFrom(DB, o, f, 2, 2).projects) = 2
         /\ Len(AccessibleProjectsFrom(DB, o, f, 3, 2).projects) = 0
    /\ ~ \E a \in access : a.user_id = u2
    /\ \E o \in ListByOwner(DB, u2), f \in GetProjectIDsByUserAccess(DB, u2) :
         /\ Len(Combined(u2, o, f)) = 3
         /\ Len(AccessibleProjectsFrom(DB, o, f, 1, 2).projects) = 2
         /\ Len(AccessibleProjectsFrom(DB, o, f, 2, 2).projects) = 1
         /\ Len(AccessibleProjectsFrom(DB, o, f, 3, 2).projects) = 0

\* C20: accessibleProjects with page < 1 answers as with page 1, and with
\* pageSize < 1 as with pageSize 10.
C20_NonPositiveDefaults ==
  \A u \in Listers :
    \A o \in ListByOwner(DB, u), f \in GetProjectIDsByUserAccess(DB, u) :
      \A page \in Pages, pageSize \in PageSizes :
        (page < 1 \/ pageSize < 1) =>
          AccessibleProjectsFrom(DB, o, f, page, pageSize)
            = AccessibleProjectsFrom(DB, o, f, IF page < 1 THEN 1 ELSE page,
                                     IF pageSize < 1 THEN 10 ELSE pageSize)

\* With three visible projects page 0 of size 2 is page 1 of size 2, and page
\* 1 of size 0 has all three.
C20_Witness ==
  \E u \in Users :
    \E o \in ListByOwner(DB, u), f \in GetProjectIDsByUserAccess(DB, u) :
      /\ Len(AccessibleProjectsFrom(DB, o, f, 0, 2).projects) = 2
      /\ AccessibleProjectsFrom(DB, o, f, 0, 2) = AccessibleProjectsFrom(DB, o, f, 1, 2)
      /\ AccessibleProjectsFrom(DB, o, f, 2, 2) # AccessibleProjectsFrom(DB, o, f, 1, 2)
      /\ Len(AccessibleProjectsFrom(DB, o, f, 1, 0).projects) = 3
      /\ Len(AccessibleProjectsFrom(DB, o, f, 2, 0).projects) = 0

\* C21: when a project is deleted after accessibleProjects has fetched the
\* user's grant ids and before it resolves them, the listing still succeeds
\* and holds the owned projects as fetched followed by every granted project
\* that is still there, in the order fetched.
C21_MissingProjectSkipped ==
  \A u \in Listers :
    \A o \in ListByOwner(DB, u), f \in GetProjectIDsByUserAccess(DB, u) :
      \A gone \in {p.id : p \in projects} :
        \A res \in {AccessibleProjectsFrom(ProjectDeleteRow(DB, gone), o, f,
                                           1, DefaultPageSize)},
           rest \in {SelectSeq(GrantedIds(u, f), LAMBDA id : id # gone)} :
          /\ res.err = "nil"
          /\ Len(res.projects) = Len(o) + Len(rest)
          /\ \A i \in 1..Len(o) : res.projects[i] = o[i]
          /\ \A j \in 1..Len(rest) :
               /\ res.projects[Len(o) + j] \in projects
               /\ res.projects[Len(o) + j].id = rest[j]

\* A user owns a project and holds grants on two projects of somebody else;
\* one of the two is gone when the ids are resolved, and the listing has the
\* owned project and the other one.
C21_Witness ==
  \E u \in Listers, a \in access, b \in access :
    /\ OwnedBy(u) # {}
    /\ a.user_id = u /\ ~Owns(u, a.project_id)
    /\ b.user_id = u /\ ~Owns(u, b.project_id) /\ a.project_id # b.project_id
    /\ \E o \in ListByOwner(DB, u), f \in GetProjectIDsByUserAccess(DB, u) :
         LET res == AccessibleProjectsFrom(ProjectDeleteRow(DB, a.project_id), o, f,
                                           1, DefaultPageSize)
         IN /\ res.err = "nil"
            /\ Len(res.projects) = Len(Combined(u, o, f)) - 1
            /\ \E i \in 1..Len(res.projects) : res.projects[i].id = b.project_id
            /\ ~ \E i \in 1..Len(res.projects) : res.projects[i].id = a.project_id

\* C22: on an existing project a view is answered 200 exactly if the
\* requester is an admin or has view access, an update exactly if admin or
\* edit access, a delete exactly if admin or owner; an admin's update and
\* delete take effect, and an admin's listing holds every project.
C22_AdminOverride ==
  /\ \A r \in GetProjectRequests : ProjectExists(r.pid) =>
       ((Status(r) = 200)
          = (RoleOf[r.user] = RoleAdmin \/ HasViewAccess(DB, r.pid, r.user).ok))
  /\ \A r \in UpdateProjectRequests : ProjectExists(r.pid) =>
       /\ (Status(r) = 200)
            = (RoleOf[r.user] = RoleAdmin \/ HasEditAccess(DB, r.pid, r.user).ok)
       /\ (RoleOf[r.user] = RoleAdmin /\ r.name # "") =>
            \E p \in Leaves(r).projects : p.id = r.pid /\ p.name = r.name
  /\ \A r \in DeleteProjectRequests : ProjectExists(r.pid) =>
       /\ (Status(r) = 200)
            = (RoleOf[r.user] = RoleAdmin \/ IsOwner(DB, r.pid, r.user).ok)
       /\ RoleOf[r.user] = RoleAdmin =>
            ~ \E p \in Leaves(r).projects : p.id = r.pid
  /\ \A u \in Users : RoleOf[u] = RoleAdmin =>
       \A response \in ListProjectsResponses(DB, u, 1, DefaultPageSize) :
         /\ response.status = 200
         /\ Len(response.projects) = Cardinality(projects)
         /\ {response.projects[i] : i \in 1..Len(response.projects)} = projects

\* Two projects of different owners, neither the admin's and neither with a
\* grant for the admin: the admin views, renames and deletes one of them and
\* lists both.
C22_Witness ==
  \E u \in Users, r1 \in GetProjectRequests, r2 \in UpdateProjectRequests,
     r3 \in DeleteProjectRequests :
    /\ RoleOf[u] = RoleAdmin /\ r1.user = u /\ r2.user = u /\ r3.user = u
    /\ r1.pid = r2.pid /\ r2.pid = r3.pid /\ ProjectExists(r1.pid)
    /\ ~HasViewAccess(DB, r1.pid, u).ok
    /\ \E p \in projects, q \in projects : p.owner # q.owner
    /\ Status(r1) = 200
    /\ Status(r2) = 200 /\ Leaves(r2) # DB
    /\ Status(r3) = 200 /\ Leaves(r3) # DB
    /\ \E response \in ListProjectsResponses(DB, u, 1, DefaultPageSize) :
         Len(response.projects) = 2

\* C23: a user who is neither admin nor owner and holds a grant on a project
\* can view it; with a view grant an update is answered 403 and changes
\* nothing, with an edit grant it is answered 200; a delete is answered 403
\* and changes nothing with either.
C23_ViewReadsEditWrites ==
  \A a \in access :
    (RoleOf[a.user_id] # RoleAdmin /\ ~Owns(a.user_id, a.project_id)) =>
      /\ \A r \in GetProjectRequests :
           (r.user = a.user_id /\ r.pid = a.project_id) => Status(r) = 200
      /\ \A r \in UpdateProjectRequests :
           (r.user = a.user_id /\ r.pid = a.project_id) =>
             IF a.level = AccessLevelView
             THEN Status(r) = 403 /\ Leaves(r) = DB
             ELSE Status(r) = 200
      /\ \A r \in DeleteProjectRequests :
           (r.user = a.user_id /\ r.pid = a.project_id) =>
             (Status(r) = 403 /\ Leaves(r) = DB)

\* One user holds a view grant and another an edit grant: the first is
\* refused a rename, the second renames, and both are refused the delete.
C23_Witness ==
  \E a \in access, b \in access :
    /\ a.level = AccessLevelView /\ b.level = AccessLevelEdit
    /\ \E r \in UpdateProjectRequests :
         r.user = a.user_id /\ r.pid = a.project_id /\ r.name # "" /\ Status(r) = 403
    /\ \E r \in UpdateProjectRequests :
         /\ r.user = b.user_id /\ r.pid = b.project_id
         /\ Status(r) = 200 /\ Leaves(r) # DB
    /\ \E r \in DeleteProjectRequests :
         r.user = a.user_id /\ r.pid = a.project_id /\ Status(r) = 403
    /\ \E r \in DeleteProjectRequests :
         r.user = b.user_id /\ r.pid = b.project_id /\ Status(r) = 403

\* C24: listGrants(P) holds every grant of P once and no grant of another
\* project, newest first; the handler gives the list to P's owner and
\* answers every other requester 403 with nothing.
C24_GrantsOfProject ==
  \A p \in projects :
    /\ \A l \in ListByProject(DB, p.id) :
         /\ {l[i] : i \in 1..Len(l)} = {a \in access : a.project_id = p.id}
         /\ Len(l) = Cardinality({a \in access : a.project_id = p.id})
         /\ \A i \in 1..(Len(l) - 1) : l[i].created_at >= l[i + 1].created_at
    /\ \A u \in Users :
         \A response \in ListAccessResponses(DB, u, p.id) :
           IF u = p.owner
           THEN response.status = 200 /\ response.access \in ListByProject(DB, p.id)
           ELSE response.status = 403 /\ response.access = <<>>

\* A project has an older and a newer grant and the other project has a
\* grant too: the owner gets the two, the newer first; a grantee, the admin
\* and the other owner get 403.
C24_Witness ==
  \E p \in projects, a \in access, b \in access, c \in access :
    /\ a.project_id = p.id /\ b.project_id = p.id /\ c.project_id # p.id
    /\ a.created_at > b.created_at
    /\ \A response \in ListAccessResponses(DB, p.owner, p.id) :
         response.status = 200 /\ response.access = <<a, b>>
    /\ \A u \in Users \ {p.owner} :
         \A response \in ListAccessResponses(DB, u, p.id) : response.status = 403

\* C25: ProjectService.List(page, pageSize) is the store's answer to limit
\* pageSize' and offset (page' - 1) * pageSize', page' being 1 for a page
\* below 1 and pageSize' being 10 for a page size below 1, result and error
\* as the store gave them; List(-1, 10) and List(1, -5) query limit 10
\* offset 0 and List(3, 10) queries limit 10 offset 20.
C25_ListQuery ==
  \A all \in OrderByCreatedAtDesc(projects) :
    /\ \A page \in Pages \cup {-1}, pageSize \in PageSizes \cup {-5} :
         \A page1 \in {IF page < 1 THEN 1 ELSE page},
            pageSize1 \in {IF pageSize < 1 THEN 10 ELSE pageSize} :
           ProjectServiceList(all, page, pageSize)
             = ProjectRepoList(all, pageSize1, (page1 - 1) * pageSize1)
    /\ ProjectServiceList(all, -1, 10) = ProjectRepoList(all, 10, 0)
    /\ ProjectServiceList(all, 1, -5) = ProjectRepoList(all, 10, 0)
    /\ ProjectServiceList(all, 3, 10) = ProjectRepoList(all, 10, 20)

\* Five projects: pages 0 and -1 of size 2 are page 1, page 3 of size 2
\* holds the fifth project alone, and a page size of -5 gives all five.
C25_Witness ==
  /\ Cardinality(projects) = 5
  /\ \A all \in OrderByCreatedAtDesc(projects) :
       /\ ProjectServiceList(all, 0, 2).projects = SubSeq(all, 1, 2)
       /\ ProjectServiceList(all, -1, 2).projects = SubSeq(all, 1, 2)
       /\ ProjectServiceList(all, 3, 2).projects = <<all[5]>>
       /\ ProjectServiceList(all, 1, -5).projects = all
       /\ ProjectServiceList(all, 1, -5).err = "nil"

\* The projects on the pages 1, 2, ... of user u's listing, the store
\* handing out u's projects as o and the project ids of u's grants as f.
AllPages(u, o, f, pageSize) ==
  UNION {{res.projects[i] : i \in 1..Len(res.projects)}
           : res \in {AccessibleProjectsFrom(DB, o, f, page, pageSize) : page \in PageNumbers}}

\* C26: where every grant is of an existing project, the pages of
\* accessibleProjects(U, ., pageSize) together hold exactly the projects P
\* with hasViewAccess(P, U).
C26_ListingAgreesWithCheck ==
  (\A a \in access : ProjectExists(a.project_id))
  => \A u \in Listers :
       \A o \in ListByOwner(DB, u), f \in GetProjectIDsByUserAccess(DB, u) :
         \A pageSize \in PageSizes :
           AllPages(u, o, f, pageSize) = {p \in projects : HasViewAccess(DB, p.id, u).ok}

\* A user owns a project, holds a view grant and an edit grant of projects
\* of another owner, and a further project is not the user's to see: the
\* pages of size 2 hold the three kinds and not the further one.
C26_Witness ==
  \E u \in Listers, own \in projects, v \in access, e \in access, other \in projects :
    /\ own.owner = u
    /\ v.user_id = u /\ v.level = AccessLevelView /\ ~Owns(u, v.project_id)
    /\ e.user_id = u /\ e.level = AccessLevelEdit /\ ~Owns(u, e.project_id)
    /\ ~HasViewAccess(DB, other.id, u).ok
    /\ \A o \in ListByOwner(DB, u), f \in GetProjectIDsByUserAccess(DB, u) :
         /\ {own.id, v.project_id, e.project_id} \subseteq {p.id : p \in AllPages(u, o, f, 2)}
         /\ other \notin AllPages(u, o, f, 2)
         /\ Len(AccessibleProjectsFrom(DB, o, f, 2, 2).projects) > 0

\* C27: while updateAccess and revokeAccess calls on one grant interleave,
\* an updateAccess that is answered 200 writes the level of a grant that
\* exists at its write, and a revokeAccess that is answered 200 deletes a
\* grant that exists at its write, so that of two revokeAccess calls on one
\* grant only one is answered 200.  The project is not deleted meanwhile.
C27_SuccessWroteGrant ==
  \A s \in Slots :
    (/\ \/ inflight[s].op = "UpdateAccess" /\ inflight[s].pc = "update"
        \/ inflight[s].op = "RevokeAccess" /\ inflight[s].pc = "delete"
     /\ ProjectExists(inflight[s].pid)
     /\ Step(DB, inflight[s]).req.status = 200)
      => \E a \in access : a.id = inflight[s].aid

\* C28: no two projects of one owner have the same name, create requests
\* running side by side included: a create request that reaches its INSERT
\* while the owner has a project of that name is answered 409 and adds
\* nothing.
C28_UniqueNamePerOwner ==
  /\ \A p \in projects, q \in projects :
       (p.owner = q.owner /\ p.name = q.name) => p = q
  /\ \A s \in Slots :
       (/\ inflight[s].op = "CreateProject" /\ inflight[s].pc = "insert"
        /\ ProjectCount(DB, inflight[s].name, inflight[s].user) > 0)
         => (Step(DB, inflight[s]).req.status = 409 /\ Step(DB, inflight[s]).db = DB)

\* C29: an admin who does not own the project is answered 403 on
\* grantAccess, updateAccess, revokeAccess and the listing of grants, and
\* nothing changes; a grant comes into being only by a grantAccess of the
\* owner of its project.
C29_NoAdminGrantManagement ==
  /\ \A r \in GrantAccessRequests \cup UpdateAccessRequests \cup RevokeAccessRequests :
       (RoleOf[r.user] = RoleAdmin /\ ProjectExists(r.pid) /\ ~Owns(r.user, r.pid))
         => (Status(r) = 403 /\ Leaves(r) = DB)
  /\ \A u \in Users, p \in projects :
       (RoleOf[u] = RoleAdmin /\ p.owner # u)
         => \A response \in ListAccessResponses(DB, u, p.id) :
              response.status = 403 /\ response.access = <<>>
  /\ \A r \in Requests :
       \A a \in Leaves(r).access :
         (~ \E b \in access : b.id = a.id)
           => (r.op = "GrantAccess" /\ Owns(r.user, r.pid) /\ a.project_id = r.pid)

\* A project of a user has a grant: the admin's grantAccess, updateAccess
\* and revokeAccess on it are answered 403 and so is the admin's listing,
\* while the owner's same requests go through.
C29_Witness ==
  \E a \in access, r1 \in GrantAccessRequests, r2 \in UpdateAccessRequests,
     r3 \in RevokeAccessRequests, o1 \in GrantAccessRequests, o2 \in UpdateAccessRequests,
     o3 \in RevokeAccessRequests :
    /\ RoleOf[r1.user] = RoleAdmin /\ r2.user = r1.user /\ r3.user = r1.user
    /\ r1.pid = a.project_id /\ r2.pid = a.project_id /\ r3.pid = a.project_id
    /\ r1.target \in Users /\ r1.target # a.user_id
    /\ r2.aid = a.id /\ r2.level # a.level /\ r3.aid = a.id
    /\ Status(r1) = 403 /\ Status(r2) = 403 /\ Status(r3) = 403
    /\ \A response \in ListAccessResponses(DB, r1.user, a.project_id) : response.status = 403
    /\ Owns(o1.user, a.project_id)
    /\ o1 = [r1 EXCEPT !.user = o1.user]
    /\ o2 = [r2 EXCEPT !.user = o1.user]
    /\ o3 = [r3 EXCEPT !.user = o1.user]
    /\ Status(o2) = 200 /\ Status(o3) = 200
    /\ Leaves(o2) # DB /\ Leaves(o3) # DB
    /\ \E response \in ListAccessResponses(DB, o1.user, a.project_id) :
         response.status = 200 /\ response.access = <<a>>

\* C30: for every page >= 1 and pageSize >= 1 that an int holds, those whose
\* product (page - 1) * pageSize overflows included, accessibleProjects
\* slices the list with 0 <= start <= end <= length or returns the empty
\* page: the slice expression never panics.
C30_SliceInRange ==
  \A u \in Listers :
    \A o \in ListByOwner(DB, u), f \in GetProjectIDsByUserAccess(DB, u) :
      \A page \in PageNumbers \cup LargePages, pageSize \in PageSizes \ {0} :
        AccessibleProjectsFrom(DB, o, f, page, pageSize).err # "panic"

====
